---- MODULE Spec2Model ----
(***************************************************************************)
(* State-machine model of the IPU ray/path-tracing codelets of             *)
(* ipu_ray_lib (codelets/TraceCodelets.cpp) together with the data types   *)
(* they mutate (include/embree_utils/geometry.hpp, include/Scene.hpp).     *)
(*                                                                         *)
(* A tile runs one vertex at a time.  BuildDataStructures is a single      *)
(* worker vertex; PathTrace, ShadowTrace, PreProcessEscapedRays and        *)
(* PostProcessEscapedRays are MultiVertex kernels whose compute(workerID)  *)
(* body is run by numWorkers() hardware threads that interleave freely.    *)
(*                                                                         *)
(* Floats are held in fixed point: the integer n stands for n / Unit, and  *)
(* NaN is a value that every arithmetic operation propagates.  Angles are  *)
(* held in eighths of a turn (TwoPi = 8 units, Pi = 4 units).              *)
(***************************************************************************)
EXTENDS Integers, Naturals, Sequences, FiniteSets, TLC

(***************************************************************************)
(* Bounds of the model.                                                    *)
(***************************************************************************)
NumWorkers == 2
MaxRays == 3
MaxShadedRays == 1
MaxSamples == 2
MaxPathLen == 2
MaxRouletteStart == 1
MaxInvocations == 3

(***************************************************************************)
(* Floating point and Vec3fa.                                              *)
(***************************************************************************)
Unit == 2
NaN == -1000

IsNaN(a) == a = NaN
FAdd(a, b) == IF IsNaN(a) \/ IsNaN(b) THEN NaN ELSE a + b
FMul(a, b) == IF IsNaN(a) \/ IsNaN(b) THEN NaN ELSE (a * b) \div Unit

Vec3fa(x, y, z) == <<x, y, z>>
VecSplat(f) == Vec3fa(f, f, f)
\* Vec3fa::operator+= and operator+ (component-wise).
VecAdd(a, b) == Vec3fa(FAdd(a[1], b[1]), FAdd(a[2], b[2]), FAdd(a[3], b[3]))
\* Vec3fa::operator*= and operator* (const Vec3fa&) (component-wise).
VecMul(a, b) == Vec3fa(FMul(a[1], b[1]), FMul(a[2], b[2]), FMul(a[3], b[3]))
VecIsNaN(a) == IsNaN(a[1]) /\ IsNaN(a[2]) /\ IsNaN(a[3])
VecHasNaN(a) == IsNaN(a[1]) \/ IsNaN(a[2]) \/ IsNaN(a[3])

(***************************************************************************)
(* Angles (geometry.hpp:14-18) in eighths of a turn, and the two libm      *)
(* functions of the equirectangular projection on the directions used.     *)
(***************************************************************************)
TwoPi == 8
Pi == 4

\* atan2(z, x) for components in {-1, 0, 1}: range (-Pi, Pi].
atan2(z, x) ==
  CASE x > 0 /\ z = 0 -> 0
    [] x > 0 /\ z > 0 -> 1
    [] x = 0 /\ z > 0 -> 2
    [] x < 0 /\ z > 0 -> 3
    [] x < 0 /\ z = 0 -> 4
    [] x < 0 /\ z < 0 -> -3
    [] x = 0 /\ z < 0 -> -2
    [] x > 0 /\ z < 0 -> -1
    [] OTHER -> 0

\* acosf(y) for y in {-1, 0, 1}: range [0, Pi].
acosf(y) == CASE y > 0 -> 0 [] y = 0 -> 2 [] OTHER -> Pi

(***************************************************************************)
(* HitRecord flags (geometry.hpp:232-233) as a bit mask.                   *)
(***************************************************************************)
ERROR == 1
ESCAPED == 2
InvalidGeomID == 65535

HasFlag(flags, bit) == (flags \div bit) % 2 = 1
\* flags |= bit
OrFlag(flags, bit) == IF HasFlag(flags, bit) THEN flags ELSE flags + bit
\* every bit of a is a bit of b
FlagsSubset(a, b) ==
  /\ HasFlag(a, ERROR) => HasFlag(b, ERROR)
  /\ HasFlag(a, ESCAPED) => HasFlag(b, ESCAPED)

(***************************************************************************)
(* Materials and the serialised scene handed to the vertices.              *)
(***************************************************************************)
Diffuse == 0
Specular == 1
Refractive == 2
UnknownTag == 3

Material(type, emissive, emission, albedo) ==
  [type |-> type, emissive |-> emissive, emission |-> emission, albedo |-> albedo]

\* Material table of the test scenes: every BSDF tag and a tag outside the
\* closed set, with and without emission.
SceneMaterials ==
  [m \in 0..4 |->
     CASE m = 0 -> Material(Diffuse, TRUE, Vec3fa(2, 4, 6), Vec3fa(2, 2, 2))
       [] m = 1 -> Material(Specular, FALSE, Vec3fa(0, 0, 0), Vec3fa(2, 1, 0))
       [] m = 2 -> Material(Refractive, TRUE, Vec3fa(4, 2, 0), Vec3fa(1, 1, 1))
       [] m = 3 -> Material(UnknownTag, TRUE, Vec3fa(0, 2, 0), Vec3fa(2, 2, 2))
       [] OTHER -> Material(Specular, TRUE, Vec3fa(0, 0, 4), Vec3fa(1, 2, 1))]

\* SceneRef (Scene.hpp:50-74): the fields the kernels read.  geometry is the
\* set of geometry ids the BVH can report, matIDs maps them to materials.
SceneRef(geometry, maxLeafDepth, maxPathLength, rouletteStartDepth) ==
  [geometry |-> geometry,
   matIDs |-> [g \in geometry |-> g],
   materials |-> SceneMaterials,
   maxLeafDepth |-> maxLeafDepth,
   maxPathLength |-> maxPathLength,
   rouletteStartDepth |-> rouletteStartDepth]

\* The zero-initialised global before any vertex has deserialised a scene.
ZeroScene == SceneRef({}, 0, 0, 0)

Geometries == {{}, {0, 1}, {2, 3}, {4}}
Scenes ==
  {SceneRef(g, 1, mpl, rsd) :
     g \in Geometries, mpl \in 0..MaxPathLen, rsd \in 0..MaxRouletteStart}

\* Scenes without geometry: every ray leaves the scene at its first query.
SkyScenes == {scene \in Scenes : scene.geometry = {} /\ scene.rouletteStartDepth = 0}

(***************************************************************************)
(* Rays.                                                                   *)
(***************************************************************************)
Workers == 0..(NumWorkers - 1)

\* Ray directions the camera and the BSDF samplers can produce.
Dirs == {Vec3fa(-1, 0, 0), Vec3fa(0, 0, -1)}

HitRecord(dir, throughput) ==
  [direction |-> dir, geomID |-> InvalidGeomID, throughput |-> throughput, flags |-> 0]

TraceResult(hit, p) == [rgb |-> Vec3fa(0, 0, 0), p |-> p, h |-> hit]

PixelCoord(row, col) == [u |-> row, v |-> col]

\* Values an uninitialised Vec3fa (HitRecord::throughput is not set by the
\* HitRecord constructor) can hold.
Garbage == {Vec3fa(0, 0, 0), Vec3fa(Unit, Unit, Unit)}

\* Inputs of the kernels.
SampleCounts == 0..MaxSamples
AzimuthRotations == 1..5
AmbientLightFactor == 1

(***************************************************************************)
(* State.                                                                  *)
(***************************************************************************)
VARIABLES
  serialisedScene,    \* the serialised scene tensor connected to the vertices
  tileLocalScene,     \* the tile-global SceneRef (TraceCodelets.cpp:51)
  sceneWriters,       \* workers in the middle of writing tileLocalScene
  rays,               \* the TraceResult buffer, indices 0..size-1
  u, v,               \* outputs of PreProcessEscapedRays (written slots only)
  kernel,             \* the vertex the tile is running, or "idle"
  vertexSampleCount,  \* input of PathTrace
  azimuthRotation,    \* input of PreProcessEscapedRays
  bgr,                \* input of PostProcessEscapedRays
  worker,             \* per worker: position in compute() and its locals
  invocations,        \* MultiVertex kernels launched so far
  rays0,              \* the ray buffer when the running kernel was launched
  audit,              \* per ray, for the running kernel: who touched it
  poisoned,           \* rays whose colour an unknown material tag poisoned
  phase               \* the kernel the scheduler's phase ordering allows next

vars == <<serialisedScene, tileLocalScene, sceneWriters, rays, u, v, kernel,
          vertexSampleCount, azimuthRotation, bgr, worker, invocations,
          rays0, audit, poisoned, phase>>

NumRays == Cardinality(DOMAIN rays)
RayIds == DOMAIN rays

NoBounce == [i |-> -1, hit |-> FALSE, roulette |-> FALSE]

IdleWorker ==
  [pc |-> "idle", r |-> 0, s |-> 0, i |-> 0, color |-> Vec3fa(0, 0, 0),
   bvh |-> 0, nq |-> 0, last |-> NoBounce, ret |-> FALSE]

NoAudit == [writers |-> {}, visits |-> 0, queries |-> 0,
            colorSum |-> Vec3fa(0, 0, 0), unrecognised |-> FALSE,
            escapes |-> 0, pathFlags |-> 0]

\* Inputs of PostProcessEscapedRays: one blue/green/red triplet per ray.
BgrInputs ==
  {[r \in RayIds |-> <<2 + 2 * r, 4, 6>>], [r \in RayIds |-> <<0, 2, 4 + 2 * r>>]}

\* The tile before the first vertex runs: the host has filled the ray buffer
\* with n <= maxRays fresh TraceResults and serialised one of the scenes.
InitFor(scenes, maxRays) ==
  /\ serialisedScene \in scenes
  /\ tileLocalScene = ZeroScene
  /\ sceneWriters = {}
  /\ \E n \in 0..maxRays : \E t \in Garbage :
       rays = [r \in 0..(n - 1) |->
                 TraceResult(HitRecord(Vec3fa(-1, 0, 0), t), PixelCoord(r, 0))]
  /\ u = <<>>
  /\ v = <<>>
  /\ kernel = "idle"
  /\ vertexSampleCount = 0
  /\ azimuthRotation = 0
  /\ bgr = <<>>
  /\ worker = [w \in Workers |-> IdleWorker]
  /\ invocations = 0
  /\ rays0 = rays
  /\ audit = [r \in RayIds |-> NoAudit]
  /\ poisoned = {}
  /\ phase = "trace"

\* Scenes with geometry, on a buffer small enough to enumerate every path.
Init == InitFor(Scenes, MaxShadedRays)

\* Longer buffers, so that a worker owns several rays, under an empty sky.
InitStride == InitFor(SkyScenes, MaxRays)

(***************************************************************************)
(* The strided loop shared by every kernel:                                *)
(*   for (auto r = workerID; r < size; r += numWorkers())                  *)
(***************************************************************************)
NextIndexOverlap(r) == r + 1

NextIndex(r) == r + NumWorkers

Touch(w, r, visit) ==
  [audit EXCEPT ![r].writers = @ \cup {w},
                ![r].visits = IF visit THEN @ + 1 ELSE @]

SetWorker(w, rec) == worker' = [worker EXCEPT ![w] = rec]

\* compute() has returned true; its locals are gone.
Returned == [IdleWorker EXCEPT !.pc = "done", !.ret = TRUE]

(***************************************************************************)
(* The external scheduler: scene rebuild, kernel launch, kernel return.    *)
(***************************************************************************)
SceneBuilt == tileLocalScene = serialisedScene

\* BuildDataStructures::compute (a single-worker Vertex).
BuildDataStructures ==
  /\ kernel = "idle"
  /\ ~SceneBuilt
  /\ tileLocalScene' = serialisedScene
  /\ UNCHANGED <<serialisedScene, sceneWriters, rays, u, v, kernel,
                 vertexSampleCount, azimuthRotation, bgr, worker, invocations,
                 rays0, audit, poisoned, phase>>

\* A worker's loop tests touch nothing shared: they are evaluated together
\* with the step that reaches them, so a worker whose first index is past the
\* end of the buffer returns without a step of its own.
StartWorker(k, w) ==
  IF k \in {"PathTrace", "ShadowTrace"} THEN [IdleWorker EXCEPT !.pc = "start", !.r = w]
  ELSE IF w < NumRays THEN [IdleWorker EXCEPT !.pc = "loop", !.r = w]
  ELSE Returned

Launch(k) ==
  /\ kernel = "idle"
  /\ SceneBuilt
  /\ invocations < MaxInvocations
  /\ kernel' = k
  /\ worker' = [w \in Workers |-> StartWorker(k, w)]
  /\ invocations' = invocations + 1
  /\ rays0' = rays
  /\ audit' = [r \in RayIds |-> NoAudit]
  /\ UNCHANGED <<serialisedScene, tileLocalScene, sceneWriters, rays, poisoned>>

LaunchPathTrace ==
  /\ phase = "trace"
  /\ phase' = "pre"
  /\ Launch("PathTrace")
  /\ vertexSampleCount' \in SampleCounts
  /\ UNCHANGED <<u, v, azimuthRotation, bgr>>

LaunchShadowTrace ==
  /\ phase = "trace"
  /\ phase' = "trace"
  /\ Launch("ShadowTrace")
  /\ UNCHANGED <<u, v, vertexSampleCount, azimuthRotation, bgr>>

LaunchPreProcess ==
  /\ phase = "pre"
  /\ phase' = "post"
  /\ Launch("PreProcessEscapedRays")
  /\ azimuthRotation' \in AzimuthRotations
  /\ u' = <<>>
  /\ v' = <<>>
  /\ UNCHANGED <<vertexSampleCount, bgr>>

LaunchPostProcess ==
  /\ phase = "post"
  /\ phase' = "trace"
  /\ Launch("PostProcessEscapedRays")
  /\ bgr' \in BgrInputs
  /\ u' = <<>>
  /\ v' = <<>>
  /\ UNCHANGED <<vertexSampleCount, azimuthRotation>>

AllDone == \A w \in Workers : worker[w].pc = "done"

\* Every worker has returned: the vertex is over and the tile is free again.
Finish ==
  /\ kernel # "idle"
  /\ AllDone
  /\ kernel' = "idle"
  /\ worker' = [w \in Workers |-> IdleWorker]
  /\ vertexSampleCount' = 0
  /\ azimuthRotation' = 0
  /\ bgr' = <<>>
  /\ rays0' = rays
  /\ audit' = [r \in RayIds |-> NoAudit]
  /\ UNCHANGED <<serialisedScene, tileLocalScene, sceneWriters, rays, u, v,
                 invocations, poisoned, phase>>

(***************************************************************************)
(* PathTrace (TraceCodelets.cpp:170-264).                                  *)
(***************************************************************************)
\* hw_uniform_0_1(): a uniform sample in [0, 1).
URand == 0..(Unit - 1)

\* CompactBvh::intersect: the closest hit is some geometry of the scene, or
\* there is none.
Intersections(scene) ==
  {[hit |-> FALSE, geomID |-> InvalidGeomID]}
    \cup {[hit |-> TRUE, geomID |-> g] : g \in scene.geometry}

Max3(a) ==
  IF a[1] >= a[2] /\ a[1] >= a[3] THEN a[1] ELSE IF a[2] >= a[3] THEN a[2] ELSE a[3]

\* evaluateRoulette(u1, throughput): TRUE stops the path; the survival
\* probability is the largest throughput component.
evaluateRoulette(u1, throughput) ==
  VecHasNaN(throughput) \/ u1 >= Max3(throughput)

\* reflect(direction, normal): the mirror image of the incoming direction
\* (the surfaces of the test scenes face the plane x = z).
reflect(dir) == Vec3fa(dir[3], dir[2], dir[1])

\* dielectric(ray, normal, ior, u1): the refracted ray goes straight on, the
\* reflected one is mirrored.
dielectric(dir, refracted) == IF refracted THEN dir ELSE reflect(dir)

\* sampleCameraRays, loop body (lines 156-162): only result.h is assigned.
\* rayDir is the jittered camera direction, t what the temporary HitRecord's
\* uninitialised throughput holds.
sampleCameraRayResetsColor(result, rayDir, t) ==
  [result EXCEPT !.h = HitRecord(rayDir, t), !.rgb = Vec3fa(0, 0, 0)]

sampleCameraRayKeepsFlags(result, rayDir, t) ==
  [result EXCEPT !.h = [HitRecord(rayDir, t) EXCEPT !.flags = result.h.flags]]

sampleCameraRay(result, rayDir, t) ==
  [result EXCEPT !.h = HitRecord(rayDir, t)]

\* Line 251: the condition under which random stopping is evaluated.
RouletteEnabled(i, scene) == i > scene.rouletteStartDepth

\* The body of the bounce loop on a hit, lines 214-244.  g is the geometry
\* hit, d the direction sampleDiffuse() returns, refracted the outcome of
\* dielectric().  Gives the new TraceResult, the running colour and whether
\* the unknown-tag branch ran.
ShadeHitAttenuatesFirst(result, color, scene, g, d, refracted) ==
  LET hit == [result.h EXCEPT !.geomID = g]
      material == scene.materials[scene.matIDs[g]]
      color1 == IF material.emissive
                  THEN VecAdd(color, VecMul(VecMul(hit.throughput, material.albedo),
                                            material.emission))
                  ELSE color
      attenuated == VecMul(hit.throughput, material.albedo)
  IN  CASE material.type = Diffuse ->
             [result |-> [result EXCEPT !.h = [hit EXCEPT !.direction = d,
                                                          !.throughput = attenuated]],
              color |-> color1, err |-> FALSE]
        [] material.type = Specular ->
             [result |-> [result EXCEPT !.h = [hit EXCEPT !.direction = reflect(@),
                                                          !.throughput = attenuated]],
              color |-> color1, err |-> FALSE]
        [] material.type = Refractive ->
             [result |-> [result EXCEPT !.h = [hit EXCEPT !.direction = dielectric(@, refracted),
                                                          !.throughput =
                                                            IF refracted THEN attenuated ELSE @]],
              color |-> color1, err |-> FALSE]
        [] OTHER ->
             [result |-> [result EXCEPT !.rgb = VecMul(@, VecSplat(NaN)),
                                        !.h = [hit EXCEPT !.flags = OrFlag(@, ERROR)]],
              color |-> color1, err |-> TRUE]

ShadeHitSkipsPoison(result, color, scene, g, d, refracted) ==
  LET hit == [result.h EXCEPT !.geomID = g]
      material == scene.materials[scene.matIDs[g]]
      color1 == IF material.emissive
                  THEN VecAdd(color, VecMul(hit.throughput, material.emission))
                  ELSE color
      attenuated == VecMul(hit.throughput, material.albedo)
  IN  CASE material.type = Diffuse ->
             [result |-> [result EXCEPT !.h = [hit EXCEPT !.direction = d,
                                                          !.throughput = attenuated]],
              color |-> color1, err |-> FALSE]
        [] material.type = Specular ->
             [result |-> [result EXCEPT !.h = [hit EXCEPT !.direction = reflect(@),
                                                          !.throughput = attenuated]],
              color |-> color1, err |-> FALSE]
        [] material.type = Refractive ->
             [result |-> [result EXCEPT !.h = [hit EXCEPT !.direction = dielectric(@, refracted),
                                                          !.throughput =
                                                            IF refracted THEN attenuated ELSE @]],
              color |-> color1, err |-> FALSE]
        [] OTHER ->
             [result |-> [result EXCEPT !.h = [hit EXCEPT !.flags = OrFlag(@, ERROR)]],
              color |-> color1, err |-> TRUE]

ShadeHit(result, color, scene, g, d, refracted) ==
  LET hit == [result.h EXCEPT !.geomID = g]
      material == scene.materials[scene.matIDs[g]]
      color1 == IF material.emissive
                  THEN VecAdd(color, VecMul(hit.throughput, material.emission))
                  ELSE color
      attenuated == VecMul(hit.throughput, material.albedo)
  IN  CASE material.type = Diffuse ->
             [result |-> [result EXCEPT !.h = [hit EXCEPT !.direction = d,
                                                          !.throughput = attenuated]],
              color |-> color1, err |-> FALSE]
        [] material.type = Specular ->
             [result |-> [result EXCEPT !.h = [hit EXCEPT !.direction = reflect(@),
                                                          !.throughput = attenuated]],
              color |-> color1, err |-> FALSE]
        [] material.type = Refractive ->
             [result |-> [result EXCEPT !.h = [hit EXCEPT !.direction = dielectric(@, refracted),
                                                          !.throughput =
                                                            IF refracted THEN attenuated ELSE @]],
              color |-> color1, err |-> FALSE]
        [] OTHER ->
             [result |-> [result EXCEPT !.rgb = VecMul(@, VecSplat(NaN)),
                                        !.h = [hit EXCEPT !.flags = OrFlag(@, ERROR)]],
              color |-> color1, err |-> TRUE]

\* A miss, lines 245-248.
MarkEscapedAsError(result) == [result EXCEPT !.h.flags = OrFlag(@, ERROR)]

MarkEscapedAssigns(result) == [result EXCEPT !.h.flags = ESCAPED]

MarkEscaped(result) == [result EXCEPT !.h.flags = OrFlag(@, ESCAPED)]

\* Line 257: result.rgb += color.
AccumulateOverwrites(result, color) == [result EXCEPT !.rgb = color]

Accumulate(result, color) == [result EXCEPT !.rgb = VecAdd(@, color)]

InPathTrace(w, pc) == kernel = "PathTrace" /\ worker[w].pc = pc

UnchangedByWorker ==
  UNCHANGED <<serialisedScene, tileLocalScene, sceneWriters, u, v, kernel,
              vertexSampleCount, azimuthRotation, bgr, invocations, rays0, phase>>

\* Line 191 and the loop heads of lines 155 and 200 for worker w about to
\* start sample s: the first ray of the sample, or return true (line 262).
SampleEntry(me, w, s) ==
  IF s < vertexSampleCount /\ w < NumRays
    THEN [me EXCEPT !.pc = "raygen", !.r = w, !.s = s]
    ELSE Returned

\* Line 206 for bounce index i: another bounce, or the end of the path.
BounceEntryOffByOne(me, i) ==
  IF i <= tileLocalScene.maxPathLength
    THEN [me EXCEPT !.pc = "bounce", !.i = i]
    ELSE [me EXCEPT !.pc = "accum", !.i = i]

BounceEntry(me, i) ==
  IF i < tileLocalScene.maxPathLength
    THEN [me EXCEPT !.pc = "bounce", !.i = i]
    ELSE [me EXCEPT !.pc = "accum", !.i = i]

\* Lines 186-189: wrap the ray buffer, construct the BVH from the scene.
PtStart(w) ==
  /\ InPathTrace(w, "start")
  /\ SetWorker(w, SampleEntry([worker[w] EXCEPT !.bvh = tileLocalScene.maxLeafDepth], w, 0))
  /\ UNCHANGED <<rays, audit, poisoned>>
  /\ UnchangedByWorker

\* sampleCameraRays, lines 155-163: one iteration of the loop.
PtRayGen(w) ==
  LET me == worker[w] IN
  /\ InPathTrace(w, "raygen")
  /\ \E rayDir \in Dirs : \E t \in Garbage :
       rays' = [rays EXCEPT ![me.r] = sampleCameraRay(@, rayDir, t)]
  /\ audit' = Touch(w, me.r, TRUE)
  /\ SetWorker(w, IF NextIndex(me.r) < NumRays
                    THEN [me EXCEPT !.r = NextIndex(@)]
                    ELSE [me EXCEPT !.pc = "trace", !.r = w])
  /\ UNCHANGED poisoned
  /\ UnchangedByWorker

\* Lines 200-204: start of one path.
PtTrace(w) ==
  LET me == worker[w] IN
  /\ InPathTrace(w, "trace")
  /\ rays' = [rays EXCEPT ![me.r].h.throughput = Vec3fa(Unit, Unit, Unit)]
  /\ audit' = [Touch(w, me.r, TRUE) EXCEPT ![me.r].pathFlags = 0]
  /\ SetWorker(w, BounceEntry([me EXCEPT !.nq = 0, !.color = Vec3fa(0, 0, 0),
                                         !.last = NoBounce], 0))
  /\ UNCHANGED poisoned
  /\ UnchangedByWorker

\* Lines 206-255: one iteration of the bounce loop.
PtBounce(w) ==
  LET me == worker[w]
      r == me.r
      scene == tileLocalScene
  IN
  /\ InPathTrace(w, "bounce")
  /\ \E isect \in Intersections(scene) :
       IF isect.hit
         THEN \E d \in Dirs : \E refracted \in BOOLEAN : \E u1 \in URand :
                LET shaded == ShadeHit(rays[r], me.color, scene, isect.geomID, d, refracted)
                    roulette == RouletteEnabled(me.i, scene)
                    stop == roulette /\ evaluateRoulette(u1, shaded.result.h.throughput)
                    moved == [me EXCEPT !.nq = @ + 1, !.color = shaded.color,
                                        !.last = [i |-> me.i, hit |-> TRUE,
                                                  roulette |-> roulette]]
                IN /\ rays' = [rays EXCEPT ![r] = shaded.result]
                   /\ audit' = [Touch(w, r, FALSE) EXCEPT
                                  ![r].queries = @ + 1,
                                  ![r].unrecognised = @ \/ shaded.err,
                                  ![r].pathFlags = IF shaded.err THEN OrFlag(@, ERROR)
                                                                 ELSE @]
                   /\ poisoned' = IF shaded.err THEN poisoned \cup {r} ELSE poisoned
                   /\ SetWorker(w, IF stop THEN [moved EXCEPT !.pc = "accum"]
                                           ELSE BounceEntry(moved, me.i + 1))
         ELSE /\ rays' = [rays EXCEPT ![r] = MarkEscaped(@)]
              /\ audit' = [Touch(w, r, FALSE) EXCEPT
                             ![r].queries = @ + 1,
                             ![r].escapes = @ + 1,
                             ![r].pathFlags = OrFlag(@, ESCAPED)]
              /\ poisoned' = poisoned
              /\ SetWorker(w, [me EXCEPT
                   !.pc = "accum",
                   !.nq = @ + 1,
                   !.last = [i |-> me.i, hit |-> FALSE, roulette |-> FALSE]])
  /\ UnchangedByWorker

\* Lines 257-258: add the running colour, step to the worker's next ray; at
\* the end of the buffer, to the next sample.
PtAccum(w) ==
  LET me == worker[w]
      left == [me EXCEPT !.i = 0, !.nq = 0, !.color = Vec3fa(0, 0, 0), !.last = NoBounce]
  IN
  /\ InPathTrace(w, "accum")
  /\ rays' = [rays EXCEPT ![me.r] = Accumulate(@, me.color)]
  /\ audit' = [Touch(w, me.r, FALSE) EXCEPT ![me.r].colorSum = VecAdd(@, me.color)]
  /\ SetWorker(w, IF NextIndex(me.r) < NumRays
                    THEN [left EXCEPT !.pc = "trace", !.r = NextIndex(@)]
                    ELSE SampleEntry(left, w, me.s + 1))
  /\ UNCHANGED poisoned
  /\ UnchangedByWorker

(***************************************************************************)
(* ShadowTrace (TraceCodelets.cpp:269-316).                                *)
(***************************************************************************)
InShadowTrace(w, pc) == kernel = "ShadowTrace" /\ worker[w].pc = pc

\* What a read of tileLocalScene can return: the object itself, or, while
\* some worker is in the middle of deserialising into it, any mix of the
\* bytes already written and those not yet written (an ArrayRef whose
\* size is not yet in place reads as empty).
SceneReads ==
  IF sceneWriters = {}
    THEN {tileLocalScene}
    ELSE {tileLocalScene, serialisedScene,
          [serialisedScene EXCEPT !.geometry = {}, !.matIDs = <<>>],
          [tileLocalScene EXCEPT !.maxLeafDepth = 0]}

\* traceShadowRay (Render.hpp): a primary BVH query and, on a hit, one
\* shadow ray to the light; the colour is the ambient term plus the direct
\* term when the light is visible.
traceShadowRay(result, scene, isect, visible) ==
  IF isect.hit
    THEN LET albedo == scene.materials[scene.matIDs[isect.geomID]].albedo
             ambient == VecMul(albedo, VecSplat(AmbientLightFactor))
         IN [result EXCEPT !.h.geomID = isect.geomID,
                           !.rgb = IF visible THEN VecAdd(ambient, albedo) ELSE ambient]
    ELSE [result EXCEPT !.rgb = Vec3fa(0, 0, 0)]

\* Lines 288-289, first half: the worker starts writing tileLocalScene.
StDeserialise(w) ==
  /\ InShadowTrace(w, "start")
  /\ sceneWriters' = sceneWriters \cup {w}
  /\ SetWorker(w, [worker[w] EXCEPT !.pc = "deser"])
  /\ UNCHANGED <<serialisedScene, tileLocalScene, rays, u, v, kernel,
                 vertexSampleCount, azimuthRotation, bgr, invocations, rays0,
                 audit, poisoned, phase>>

\* Lines 288-289, second half: the write of tileLocalScene is complete.
StDeserialised(w) ==
  /\ InShadowTrace(w, "deser")
  /\ tileLocalScene' = serialisedScene
  /\ sceneWriters' = sceneWriters \ {w}
  /\ SetWorker(w, [worker[w] EXCEPT !.pc = "bvh"])
  /\ UNCHANGED <<serialisedScene, rays, u, v, kernel, vertexSampleCount,
                 azimuthRotation, bgr, invocations, rays0, audit, poisoned, phase>>

\* Lines 291-296: construct the BVH from the scene.
StBvh(w) ==
  /\ InShadowTrace(w, "bvh")
  /\ \E scene \in SceneReads :
       SetWorker(w, IF w < NumRays
                      THEN [worker[w] EXCEPT !.pc = "loop", !.r = w,
                                             !.bvh = scene.maxLeafDepth]
                      ELSE Returned)
  /\ UNCHANGED <<rays, audit, poisoned>>
  /\ UnchangedByWorker

\* Lines 304-314: one iteration of the loop over rays.
StRay(w) ==
  LET me == worker[w] IN
  /\ InShadowTrace(w, "loop")
  /\ \E scene \in SceneReads : \E isect \in Intersections(scene) :
       \E visible \in BOOLEAN :
         /\ rays' = [rays EXCEPT ![me.r] = traceShadowRay(@, scene, isect, visible)]
         /\ audit' = [Touch(w, me.r, TRUE) EXCEPT
                        ![me.r].queries = @ + (IF isect.hit THEN 2 ELSE 1)]
  /\ poisoned' = poisoned \ {me.r}
  /\ SetWorker(w, IF NextIndex(me.r) < NumRays
                    THEN [me EXCEPT !.r = NextIndex(@)]
                    ELSE Returned)
  /\ UnchangedByWorker

(***************************************************************************)
(* PreProcessEscapedRays (TraceCodelets.cpp:321-358).                      *)
(***************************************************************************)
\* Texture coordinates are held in fixed point: n stands for n / UVScale.
UVScale == 8
MulInvPi(theta) == (theta * UVScale) \div Pi
MulInv2Pi(phi) == (phi * UVScale) \div TwoPi

\* Lines 342-346: bring phi back into one turn.
WrapPhi(phi) ==
  IF phi < 0 THEN phi + TwoPi
  ELSE IF phi > TwoPi THEN phi - TwoPi
  ELSE phi

\* Lines 340-341: the raw longitude before wrapping.
RawPhi(dir, azimuth) == atan2(dir[3], dir[1]) + azimuth

\* Lines 336-353: the u/v pair written for one ray.
EscapedUVNoElse(result, azimuth) ==
  IF HasFlag(result.h.flags, ESCAPED)
    THEN [u |-> MulInvPi(acosf(result.h.direction[2])),
          v |-> MulInv2Pi(WrapPhi(RawPhi(result.h.direction, azimuth)))]
    ELSE [u |-> MulInvPi(acosf(result.h.direction[2])),
          v |-> MulInv2Pi(RawPhi(result.h.direction, azimuth))]

EscapedUV(result, azimuth) ==
  IF HasFlag(result.h.flags, ESCAPED)
    THEN [u |-> MulInvPi(acosf(result.h.direction[2])),
          v |-> MulInv2Pi(WrapPhi(RawPhi(result.h.direction, azimuth)))]
    ELSE [u |-> 0, v |-> 0]

\* Lines 333-356: one iteration of the loop over rays.
PreRay(w) ==
  LET me == worker[w]
      uv == EscapedUV(rays[me.r], azimuthRotation)
  IN
  /\ kernel = "PreProcessEscapedRays"
  /\ me.pc = "loop"
  /\ u' = (me.r :> uv.u) @@ u
  /\ v' = (me.r :> uv.v) @@ v
  /\ audit' = Touch(w, me.r, TRUE)
  /\ SetWorker(w, IF NextIndex(me.r) < NumRays
                    THEN [me EXCEPT !.r = NextIndex(@)]
                    ELSE Returned)
  /\ UNCHANGED <<serialisedScene, tileLocalScene, sceneWriters, rays, kernel,
                 vertexSampleCount, azimuthRotation, bgr, invocations, rays0,
                 poisoned, phase>>

(***************************************************************************)
(* PostProcessEscapedRays (TraceCodelets.cpp:361-382).                     *)
(***************************************************************************)
\* Lines 374-377; sample is bgr[r], indexed from 1 here and from 0 there.
AddEnvironmentRgbOrder(result, sample) ==
  IF HasFlag(result.h.flags, ESCAPED)
    THEN [result EXCEPT !.rgb =
            VecAdd(@, VecMul(result.h.throughput, Vec3fa(sample[1], sample[2], sample[3])))]
    ELSE result

AddEnvironment(result, sample) ==
  IF HasFlag(result.h.flags, ESCAPED)
    THEN [result EXCEPT !.rgb =
            VecAdd(@, VecMul(result.h.throughput, Vec3fa(sample[3], sample[2], sample[1])))]
    ELSE result

\* Lines 371-380: one iteration of the loop over rays.
PostRay(w) ==
  LET me == worker[w] IN
  /\ kernel = "PostProcessEscapedRays"
  /\ me.pc = "loop"
  /\ rays' = [rays EXCEPT ![me.r] = AddEnvironment(@, bgr[me.r])]
  /\ audit' = Touch(w, me.r, TRUE)
  /\ SetWorker(w, IF NextIndex(me.r) < NumRays
                    THEN [me EXCEPT !.r = NextIndex(@)]
                    ELSE Returned)
  /\ UNCHANGED poisoned
  /\ UnchangedByWorker

(***************************************************************************)
(* The specification.                                                      *)
(***************************************************************************)
WorkerStep(w) ==
  \/ PtStart(w)
  \/ PtRayGen(w)
  \/ PtTrace(w)
  \/ PtBounce(w)
  \/ PtAccum(w)
  \/ StDeserialise(w)
  \/ StDeserialised(w)
  \/ StBvh(w)
  \/ StRay(w)
  \/ PreRay(w)
  \/ PostRay(w)

Next ==
  \/ BuildDataStructures
  \/ LaunchPathTrace
  \/ LaunchShadowTrace
  \/ LaunchPreProcess
  \/ LaunchPostProcess
  \/ Finish
  \/ \E w \in Workers : WorkerStep(w)

Spec == Init /\ [][Next]_vars

StrideSpec == InitStride /\ [][Next]_vars

\* Each worker is a hardware thread that keeps executing its compute() until
\* it returns.
FairSpec == Spec /\ \A w \in Workers : WF_vars(WorkerStep(w))

(***************************************************************************)
(* Properties.                                                             *)
(***************************************************************************)
Running == kernel # "idle"

\* How often a kernel that has returned has visited each ray: PathTrace
\* runs the ray-generation loop and the trace loop once per sample, the
\* other kernels run one loop once.
ExpectedVisits == IF kernel = "PathTrace" THEN 2 * vertexSampleCount ELSE 1

\* C1: in every kernel worker i processes exactly the indices i, i+W, i+2W,
\* ... below the ray count: a ray slot (or u/v slot) is only ever written by
\* the worker that owns it, whatever the interleaving, and when the kernel
\* has returned every index has been processed exactly once by each loop.
StridedPartition ==
  Running =>
    /\ \A r \in RayIds : audit[r].writers \subseteq {r % NumWorkers}
    /\ \A w \in Workers :
         worker[w].pc \notin {"start", "deser", "bvh", "done"}
           => worker[w].r % NumWorkers = w /\ worker[w].r \in RayIds
    /\ AllDone => \A r \in RayIds : audit[r].visits = ExpectedVisits

\* A worker that owns two rays has processed both in two samples, beside
\* another worker that processed its own.
StridedPartitionWitness ==
  /\ kernel = "PathTrace"
  /\ AllDone
  /\ NumRays = MaxRays
  /\ vertexSampleCount = MaxSamples
  /\ audit[0].writers = {0}
  /\ audit[NumWorkers].writers = {0}
  /\ audit[1].writers = {1}

\* C2: while the workers of a PathTrace or ShadowTrace invocation run, no
\* worker writes tileLocalScene, so no worker accesses it while another
\* worker is in the middle of writing it.
SceneReadOnlyDuringTrace ==
  kernel \in {"PathTrace", "ShadowTrace"} =>
    \A a \in sceneWriters : \A b \in Workers \ {a} :
      worker[b].pc \notin {"deser", "bvh", "loop"}

\* The BVH queries of PathTrace stay within the path length: per path, and
\* per ray over the samples of the invocation.
QueriesBounded ==
  kernel = "PathTrace" =>
    /\ \A w \in Workers : worker[w].nq <= tileLocalScene.maxPathLength
    /\ \A r \in RayIds :
         audit[r].queries <= tileLocalScene.maxPathLength * vertexSampleCount

\* ShadowTrace and the resolver phases are over after one visit of each ray.
SinglePass ==
  kernel \in {"ShadowTrace", "PreProcessEscapedRays", "PostProcessEscapedRays"} =>
    /\ \A r \in RayIds : audit[r].visits <= 1
    /\ AllDone => \A r \in RayIds : audit[r].visits = 1

\* C3: every invocation terminates for every worker; PathTrace makes at most
\* maxPathLength BVH queries per ray per sample, so at most maxPathLength x
\* vertexSampleCount per ray per invocation, whatever the hits, misses and
\* random draws; ShadowTrace and the resolver phases end after one pass.
InvocationsTerminate ==
  /\ [](QueriesBounded /\ SinglePass)
  /\ \A w \in Workers : (worker[w].pc # "idle") ~> (worker[w].pc = "done")

\* A ray that used the whole budget: maxPathLength queries in each sample.
InvocationsTerminateWitness ==
  /\ kernel = "PathTrace"
  /\ AllDone
  /\ NumRays = 1
  /\ vertexSampleCount = MaxSamples
  /\ tileLocalScene.maxPathLength = MaxPathLen
  /\ audit[0].queries = MaxPathLen * MaxSamples

\* C4: PathTrace adds to the accumulated colour: for a ray that only hit
\* recognised materials, rgb is its value when the invocation started plus
\* the running colours of the samples finished so far (all S of them once
\* the kernel has returned); ray generation and the trace loop never reset
\* it, and the pixel coordinate p never changes.
ColorAdditive ==
  kernel = "PathTrace" =>
    \A r \in RayIds :
      /\ rays[r].p = rays0[r].p
      /\ ~audit[r].unrecognised =>
           rays[r].rgb = VecAdd(rays0[r].rgb, audit[r].colorSum)

\* Two samples that both hit the light, added to a colour left by an
\* earlier invocation.
ColorAdditiveWitness ==
  /\ kernel = "PathTrace"
  /\ AllDone
  /\ NumRays = 1
  /\ vertexSampleCount = 2
  /\ ~audit[0].unrecognised
  /\ rays0[0].rgb # Vec3fa(0, 0, 0)
  /\ audit[0].colorSum[1] > SceneMaterials[0].emission[1]
  /\ rays[0].rgb # rays0[0].rgb

\* C5: PostProcessEscapedRays adds throughput * (bgr[r][2], bgr[r][1],
\* bgr[r][0]) to the rgb of every ray whose ESCAPED flag is set and leaves a
\* ray whose flag is not set entirely unchanged; flags, throughput, ray and
\* pixel coordinate are unchanged in both cases.
PostProcessAddsEnvironment ==
  kernel = "PostProcessEscapedRays" =>
    \A r \in RayIds :
      LET before == rays0[r]
          now == rays[r]
          t == before.h.throughput
          red == bgr[r][3]
          green == bgr[r][2]
          blue == bgr[r][1]
      IN  /\ now.h = before.h
          /\ now.p = before.p
          /\ audit[r].visits = 0 => now.rgb = before.rgb
          /\ audit[r].visits = 1 =>
               IF HasFlag(before.h.flags, ESCAPED)
                 THEN /\ now.rgb[1] = FAdd(before.rgb[1], FMul(t[1], red))
                      /\ now.rgb[2] = FAdd(before.rgb[2], FMul(t[2], green))
                      /\ now.rgb[3] = FAdd(before.rgb[3], FMul(t[3], blue))
                 ELSE now.rgb = before.rgb
          /\ AllDone => audit[r].visits = 1

\* An escaped ray with an attenuated throughput received its environment
\* colour.
PostProcessAddsEnvironmentWitness ==
  /\ kernel = "PostProcessEscapedRays"
  /\ AllDone
  /\ NumRays = 1
  /\ HasFlag(rays0[0].h.flags, ESCAPED)
  /\ rays0[0].h.throughput = SceneMaterials[1].albedo
  /\ ~VecHasNaN(rays[0].rgb)
  /\ rays[0].rgb # rays0[0].rgb

\* C6: PreProcessEscapedRays writes u = v = 0 for every ray whose ESCAPED
\* flag is not set, whatever else its HitRecord holds, and when it has
\* returned it has written a u/v pair for every ray index.
NonEscapedGetZeroUV ==
  kernel = "PreProcessEscapedRays" =>
    /\ DOMAIN u = {r \in RayIds : audit[r].visits > 0}
    /\ DOMAIN v = DOMAIN u
    /\ \A r \in DOMAIN u :
         ~HasFlag(rays[r].h.flags, ESCAPED) => u[r] = 0 /\ v[r] = 0
    /\ AllDone => DOMAIN u = RayIds

\* A ray that hit an unknown material and then ended on a surface (ERROR
\* set, ESCAPED not set, a geometry id recorded) got (0, 0).
NonEscapedGetZeroUVWitness ==
  /\ kernel = "PreProcessEscapedRays"
  /\ AllDone
  /\ NumRays = 1
  /\ rays[0].h.flags = ERROR
  /\ rays[0].h.geomID # InvalidGeomID
  /\ u[0] = 0
  /\ v[0] = 0

\* C7: the longitude of an escaped ray is wrapped into [0, 2 pi) before v
\* is emitted (raw values -eps, 0, 2 pi - eps, 2 pi and 2 pi + eps included),
\* so every v written for an escaped ray is in [0, 1).
LongitudeWrappedIntoTurn ==
  kernel = "PreProcessEscapedRays" =>
    \A r \in DOMAIN v :
      HasFlag(rays[r].h.flags, ESCAPED) => 0 <= v[r] /\ v[r] < UVScale

\* The step that takes the unknown-tag branch for ray r leaves ERROR set and
\* the colour NaN.
PoisonedWithError ==
  \A r \in poisoned' \ poisoned :
    HasFlag(rays'[r].h.flags, ERROR) /\ VecIsNaN(rays'[r].rgb)

\* C8: when a ray hits a surface whose material tag is none of Diffuse,
\* Specular and Refractive, that step sets ERROR on its HitRecord and turns
\* its accumulated colour to NaN; nothing is thrown (every worker still
\* returns true), and the colour stays NaN to the end of the invocation and
\* through the resolver phases that follow.
UnknownMaterialPoisons ==
  /\ [](\A r \in poisoned : VecIsNaN(rays[r].rgb))
  /\ [](\A w \in Workers : worker[w].pc = "done" => worker[w].ret)
  /\ [][PoisonedWithError]_vars

\* A poisoned ray that later escaped went through Phase B, which added an
\* environment colour to it, and is still NaN.
UnknownMaterialPoisonsWitness ==
  /\ kernel = "PostProcessEscapedRays"
  /\ AllDone
  /\ 0 \in poisoned
  /\ audit[0].visits = 1
  /\ HasFlag(rays[0].h.flags, ESCAPED)
  /\ VecIsNaN(rays[0].rgb)

\* A step of the path tracer or of a resolver phase keeps every flag bit of
\* every ray, unless it is the ray-generation step for that ray.
FlagsOnlyGrow ==
  kernel \in {"PathTrace", "PreProcessEscapedRays", "PostProcessEscapedRays"} =>
    \A r \in RayIds :
      \/ FlagsSubset(rays[r].h.flags, rays'[r].h.flags)
      \/ \E w \in Workers : worker[w].r = r /\ PtRayGen(w)

\* C9: PathTrace's bounce loop, Phase A and Phase B only ever add bits to a
\* ray's flags: the one step of these kernels that can clear a bit is the
\* HitRecord reset of ray generation at the start of a sample.
FlagsMonotone == [][FlagsOnlyGrow]_vars

\* ERROR was set, ESCAPED was then added to it, and both are still there
\* after the two resolver phases.
FlagsMonotoneWitness ==
  /\ kernel = "PostProcessEscapedRays"
  /\ AllDone
  /\ NumRays = 1
  /\ HasFlag(rays[0].h.flags, ERROR)
  /\ HasFlag(rays[0].h.flags, ESCAPED)

\* C10: Russian roulette is evaluated after every bounce whose index is >=
\* rouletteStartDepth and that hit a surface, and after no bounce whose index
\* is < rouletteStartDepth.
RouletteFromStartDepth ==
  kernel = "PathTrace" =>
    \A w \in Workers :
      LET last == worker[w].last IN
      last.i >= 0 =>
        (last.roulette <=> (last.hit /\ last.i >= tileLocalScene.rouletteStartDepth))

\* The path worker w is tracing has made a closest-hit query that found
\* nothing.
PathMissed(w) == worker[w].last.i >= 0 /\ ~worker[w].last.hit

\* Between ray generation and the end of its path a ray is flagged ESCAPED
\* exactly when a query of this path missed, the miss is the path's last
\* query, and a path still bouncing has not missed.
EscapedIffMissed ==
  kernel = "PathTrace" =>
    \A w \in Workers :
      LET me == worker[w]
          escaped == HasFlag(rays[me.r].h.flags, ESCAPED)
      IN  /\ me.pc = "trace" => ~escaped
          /\ me.pc = "bounce" => ~escaped /\ ~PathMissed(w)
          /\ me.pc = "accum" => (escaped <=> PathMissed(w))
          /\ me.pc \in {"bounce", "accum"} => me.last.i = me.nq - 1

\* The step that sets ESCAPED on ray r is a query of r's worker that leaves
\* the bounce loop and changes nothing else: no geometry or material is
\* looked up, throughput and running colour keep their values, no roulette
\* sample is drawn.
EscapeEndsPath ==
  kernel = "PathTrace" =>
    \A r \in RayIds :
      (~HasFlag(rays[r].h.flags, ESCAPED) /\ HasFlag(rays'[r].h.flags, ESCAPED)) =>
        \E w \in Workers :
          /\ worker[w].r = r
          /\ worker[w].pc = "bounce"
          /\ worker'[w].pc = "accum"
          /\ worker'[w].nq = worker[w].nq + 1
          /\ worker'[w].color = worker[w].color
          /\ ~worker'[w].last.roulette
          /\ rays'[r] = [rays[r] EXCEPT !.h.flags = OrFlag(@, ESCAPED)]

\* Once the bounce loop is left, the worker's next step on the ray queries
\* the BVH no more and leaves the HitRecord alone.
NoQueryAfterPathEnd ==
  kernel = "PathTrace" =>
    \A w \in Workers :
      (worker[w].pc = "accum" /\ worker'[w] # worker[w]) =>
        /\ audit'[worker[w].r].queries = audit[worker[w].r].queries
        /\ rays'[worker[w].r].h = rays[worker[w].r].h

\* C11: in PathTrace, within one sample a ray's ESCAPED flag is set if and
\* only if a closest-hit query for it found nothing; that query ends the
\* path at once (no material lookup, throughput update, roulette draw or
\* further query), and a path ended by roulette or by maxPathLength is not
\* flagged ESCAPED.
EscapedExactlyOnMiss ==
  /\ []EscapedIffMissed
  /\ [][EscapeEndsPath]_vars
  /\ [][NoQueryAfterPathEnd]_vars

\* A path that hit a surface, bounced, and then left the scene: the miss
\* was its second and last query.
EscapedExactlyOnMissWitness ==
  /\ kernel = "PathTrace"
  /\ worker[0].pc = "accum"
  /\ worker[0].nq = 2
  /\ rays[0].h.geomID # InvalidGeomID
  /\ PathMissed(0)
  /\ HasFlag(rays[0].h.flags, ESCAPED)

\* Worker w's step is a bounce of its path that hit a surface.
HitStep(w) ==
  /\ InPathTrace(w, "bounce")
  /\ worker'[w].nq = worker[w].nq + 1
  /\ worker'[w].last.hit

\* A bounce that hits adds throughput * emission to the running colour when
\* the material is emissive, with the throughput the path had before the
\* bounce, and only then attenuates the throughput as the tag says.
EmissionBeforeAttenuation ==
  \A w \in Workers :
    HitStep(w) =>
      LET r == worker[w].r
          material == tileLocalScene.materials[tileLocalScene.matIDs[rays'[r].h.geomID]]
          t == rays[r].h.throughput
          attenuated == VecMul(t, material.albedo)
      IN  /\ worker'[w].color =
                IF material.emissive
                  THEN VecAdd(worker[w].color, VecMul(t, material.emission))
                  ELSE worker[w].color
          /\ rays'[r].h.throughput \in {t, attenuated}
          /\ material.type \in {Diffuse, Specular} => rays'[r].h.throughput = attenuated
          /\ material.type = UnknownTag => rays'[r].h.throughput = t

\* No bounce takes anything away from the running colour, and the end of
\* the path adds the running colour to rgb.
ColorReachesRgb ==
  kernel = "PathTrace" =>
    \A w \in Workers :
      /\ worker[w].pc = "bounce" =>
            \A k \in 1..3 : worker'[w].color[k] >= worker[w].color[k]
      /\ (worker[w].pc = "accum" /\ worker'[w] # worker[w]) =>
            rays'[worker[w].r].rgb = VecAdd(rays[worker[w].r].rgb, worker[w].color)

\* A path starts with throughput (1, 1, 1) and running colour (0, 0, 0), so
\* after a first bounce that hit, the running colour is exactly the emission
\* of the material hit (nothing for a material that is not emissive).
FirstHitAddsEmission ==
  kernel = "PathTrace" =>
    \A w \in Workers :
      LET me == worker[w]
          hit == rays[me.r].h
          material == tileLocalScene.materials[tileLocalScene.matIDs[hit.geomID]]
      IN  /\ (me.pc = "bounce" /\ me.i = 0) =>
                hit.throughput = Vec3fa(Unit, Unit, Unit) /\ me.color = Vec3fa(0, 0, 0)
          /\ (me.pc \in {"bounce", "accum"} /\ me.last.i = 0 /\ me.last.hit) =>
                me.color = IF material.emissive THEN material.emission
                                                ELSE Vec3fa(0, 0, 0)

\* C12: in PathTrace every hit of an emissive material, whatever its BSDF
\* tag, adds throughput * emission to the running colour, the throughput
\* being the product of the attenuations of the earlier bounces only; a hit
\* of an emissive surface at bounce 0 therefore adds exactly the emission,
\* and that sample's contribution to rgb is non-zero when the emission is.
EmissionAddedOnEveryHit ==
  /\ []FirstHitAddsEmission
  /\ [][EmissionBeforeAttenuation]_vars
  /\ [][ColorReachesRgb]_vars

\* A path refracted through the emissive glass at bounce 0, which halved its
\* throughput, and hit it again at bounce 1: emission plus half the emission.
EmissionAddedOnEveryHitWitness ==
  /\ kernel = "PathTrace"
  /\ worker[0].pc = "accum"
  /\ worker[0].last.i = 1
  /\ worker[0].last.hit
  /\ SceneMaterials[rays[0].h.geomID].type = Refractive
  /\ worker[0].color = VecAdd(SceneMaterials[2].emission,
                               VecMul(SceneMaterials[2].albedo, SceneMaterials[2].emission))

\* Ray generation replaces the whole HitRecord of the ray, and the start of
\* a path sets its throughput to (1, 1, 1): nothing of an earlier sample's
\* flags, geometry or throughput is carried into the next.
SampleStartsAfresh ==
  kernel = "PathTrace" =>
    \A w \in Workers :
      LET r == worker[w].r IN
      /\ (worker[w].pc = "raygen" /\ worker'[w] # worker[w]) =>
            /\ rays'[r].h.flags = 0
            /\ rays'[r].h.geomID = InvalidGeomID
            /\ rays'[r].rgb = rays[r].rgb
      /\ (worker[w].pc = "trace" /\ worker'[w] # worker[w]) =>
            rays'[r].h.throughput = Vec3fa(Unit, Unit, Unit)

\* What a returned PathTrace leaves in the buffer: with no sample, what was
\* there; otherwise, for every ray, the flags its last path set and no
\* others, however many of its samples left the scene.
FlagsOfLastSample ==
  kernel = "PathTrace" =>
    /\ vertexSampleCount = 0 => rays = rays0
    /\ (AllDone /\ vertexSampleCount >= 1) =>
         \A r \in RayIds :
           /\ rays[r].h.flags = audit[r].pathFlags
           /\ HasFlag(rays[r].h.flags, ESCAPED) => audit[r].escapes >= 1
           /\ audit[r].escapes <= vertexSampleCount

\* C13: after a PathTrace invocation with vertexSampleCount = S > 1 the
\* flags and throughput of each ray are those of its last sample only, ray
\* generation resetting the HitRecord at the start of every sample: a ray
\* that escaped in an earlier sample but not in the last is not flagged
\* ESCAPED, so the resolver phases that follow add an environment colour
\* for at most one of its S samples; with S = 0 the buffer is unchanged.
LastSampleDecidesFlags ==
  /\ []FlagsOfLastSample
  /\ [][SampleStartsAfresh]_vars

\* A ray left the scene in its first sample, ended on a surface in its
\* second, and is not flagged ESCAPED when the kernel returns.
LastSampleDecidesFlagsWitness ==
  /\ kernel = "PathTrace"
  /\ AllDone
  /\ NumRays = 1
  /\ vertexSampleCount = 2
  /\ audit[0].escapes = 1
  /\ ~HasFlag(rays[0].h.flags, ESCAPED)

====
